---------------------------- MODULE Spec2Model ----------------------------
(***************************************************************************)
(* A model of class MessageBox (src/MessageBox.py): a fixed-size box of    *)
(* numbered slots, each empty or holding one message.                      *)
(*                                                                         *)
(* The object's attributes my_size, count, messages and empty_box are the  *)
(* variables of the same names.  Every method is an operator that returns  *)
(* what a call does (the exception raised or the value returned and, for   *)
(* send and receive, the attributes after the call); every Call_<method>   *)
(* action is one call of the method by the box's owner.  The variables     *)
(* last, pre, sent and stdout record the call and what it was observed to  *)
(* do; the methods never read them.  constructed_with records the call of  *)
(* the constructor; scenario and threads belong to the two specifications  *)
(* in which the box is driven through a fixed scenario and by two          *)
(* unsynchronised callers.                                                 *)
(***************************************************************************)
EXTENDS Integers, Sequences, FiniteSets

VARIABLES
    my_size,    \* self.my_size
    count,      \* self.count
    messages,   \* self.messages, a list indexed from 0
    empty_box,  \* self.empty_box, a list indexed from 0
    last,       \* the most recent call: method, arguments, exception, return value
    pre,        \* self and sent as they were when the most recent call started
    sent,       \* per slot: the message of the latest successful send not yet received
    stdout,     \* the texts the most recent call printed, one per call of print(...)
    constructed_with,  \* the argument the constructor was called with; None if none
    scenario,   \* the progress of the fill-and-drain scenario (SpecFillDrain)
    threads     \* what each unsynchronised caller is in the middle of (SpecConcurrent)

vars == <<my_size, count, messages, empty_box, last, pre, sent, stdout,
          constructed_with, scenario, threads>>

---------------------------------------------------------------------------
(* Bounds of the model. *)

\* The largest capacity a box is constructed with.
MaxCapacity == 3

\* Two unsynchronised callers stop starting calls once the count is further than
\* this below 0 or above the capacity.
MaxDrift == 1

\* Capacities down to -NonPositive are constructed too (zero and negative ones).
NonPositive == 1

\* Indexes passed to the methods run from -IndexSlack to MaxCapacity + IndexSlack - 1.
IndexSlack == 1

\* DEFAULT_SIZE
DEFAULT_SIZE == 10

---------------------------------------------------------------------------
(* Python values: the messages, the indexes and the return values. *)

PyStr(x) == [tag |-> "str", s |-> x, n |-> 0, b |-> FALSE]

PyInt(x) == [tag |-> "int", s |-> "", n |-> x, b |-> FALSE]

PyBool(x) == [tag |-> "bool", s |-> "", n |-> 0, b |-> x]

None == [tag |-> "NoneType", s |-> "", n |-> 0, b |-> FALSE]

\* The messages the owner sends: strings (the empty one too), an integer, None.
Messages == {PyStr("Hello"), PyStr(""), PyInt(-7), None}

Capacities == (0 - NonPositive) .. MaxCapacity

Indexes == {PyInt(i) : i \in (0 - IndexSlack) .. (MaxCapacity + IndexSlack - 1)}

Digit(d) ==
    CASE d = 0 -> "0" [] d = 1 -> "1" [] d = 2 -> "2" [] d = 3 -> "3" [] d = 4 -> "4"
      [] d = 5 -> "5" [] d = 6 -> "6" [] d = 7 -> "7" [] d = 8 -> "8" [] d = 9 -> "9"

RECURSIVE NatToStr(_)
NatToStr(n) == IF n < 10 THEN Digit(n) ELSE NatToStr(n \div 10) \o Digit(n % 10)

\* Python's decimal form of an integer, as str(i) and f"{i}" give it.
IntToStr(n) == IF n < 0 THEN "-" \o NatToStr(0 - n) ELSE NatToStr(n)

\* Python's str(v).
str(v) ==
    CASE v.tag = "str" -> v.s
      [] v.tag = "int" -> IntToStr(v.n)
      [] v.tag = "bool" -> (IF v.b THEN "True" ELSE "False")
      [] v.tag = "NoneType" -> "None"

RECURSIVE join(_, _)
\* Python's sep.join(parts).
join(sep, parts) ==
    IF Len(parts) = 0 THEN ""
    ELSE IF Len(parts) = 1 THEN parts[1]
    ELSE parts[1] \o sep \o join(sep, Tail(parts))

\* [v] * n, as a list indexed from 0; a negative n gives the empty list.
Repeat(v, n) == [i \in 0 .. (n - 1) |-> v]

---------------------------------------------------------------------------
(* Exceptions and the results of calls. *)

NoExc == [type |-> "", msg |-> ""]

IndexError(m) == [type |-> "IndexError", msg |-> m]

RuntimeError(m) == [type |-> "RuntimeError", msg |-> m]

\* The object, self.
self == [my_size |-> my_size, count |-> count,
         messages |-> messages, empty_box |-> empty_box]

\* A method returns v.
Return(v) == [exc |-> NoExc, val |-> v]

\* A method raises e.
Raise(e) == [exc |-> e, val |-> None]

---------------------------------------------------------------------------
(* The methods of MessageBox. *)

\* The constructor replacing a capacity below 1 by the default.
Construct_Clamped(num_entries) ==
    LET n == IF num_entries < 1 THEN DEFAULT_SIZE ELSE num_entries IN
    [my_size |-> n, count |-> 0,
     messages |-> Repeat(None, n),
     empty_box |-> Repeat(TRUE, n)]

\* The constructor starting the count at the capacity.
Construct_CountIsCapacity(num_entries) ==
    [my_size |-> num_entries, count |-> num_entries,
     messages |-> Repeat(None, num_entries),
     empty_box |-> Repeat(TRUE, num_entries)]

\* MessageBox(num_entries): the attributes after construction.
Construct(num_entries) ==
    [my_size |-> num_entries, count |-> 0,
     messages |-> Repeat(None, num_entries),
     empty_box |-> Repeat(TRUE, num_entries)]

\* empty without its test index < 0: a negative index then reaches the list, where
\* Python counts it from the end (and raises its own IndexError before the start).
empty_NoLowerBound(index) ==
    IF index = None THEN Return(PyBool(count = 0))
    ELSE IF index.n >= my_size THEN Raise(IndexError("Index out of bounds"))
    ELSE LET len == IF my_size < 0 THEN 0 ELSE my_size
             at == IF index.n < 0 THEN index.n + len ELSE index.n
         IN  IF at < 0 THEN Raise(IndexError("list index out of range"))
             ELSE Return(PyBool(empty_box[at]))

\* empty telling an empty slot by its content: a slot whose message is None counts
\* as empty.
empty_ByPlaceholder(index) ==
    IF index = None THEN Return(PyBool(count = 0))
    ELSE IF index.n < 0 \/ index.n >= my_size THEN Raise(IndexError("Index out of bounds"))
    ELSE Return(PyBool(messages[index.n] = None))

\* empty(index); index is None when the call gives none.
empty(index) ==
    IF index = None THEN Return(PyBool(count = 0))
    ELSE IF index.n < 0 \/ index.n >= my_size THEN Raise(IndexError("Index out of bounds"))
    ELSE Return(PyBool(empty_box[index.n]))

\* full with its overall test off by one.
full_OffByOne(index) ==
    IF index = None THEN Return(PyBool(count = my_size - 1))
    ELSE LET e == empty(index) IN
         IF e.exc # NoExc THEN e ELSE Return(PyBool(~e.val.b))

\* full telling an occupied slot by its content instead of negating empty(index).
full_ByMessage(index) ==
    IF index = None THEN Return(PyBool(count = my_size))
    ELSE LET e == empty(index) IN
         IF e.exc # NoExc THEN e ELSE Return(PyBool(messages[index.n] # None))

\* full(index); index is None when the call gives none.
full(index) ==
    IF index = None THEN Return(PyBool(count = my_size))
    ELSE LET e == empty(index) IN
         IF e.exc # NoExc THEN e ELSE Return(PyBool(~e.val.b))

\* send storing the message before it tests the slot: a rejected send has
\* already replaced the slot's message.
send_StoreBeforeCheck(index, message) ==
    IF index.n < 0 \/ index.n >= my_size
    THEN [exc |-> IndexError("Index out of bounds"), val |-> None, self |-> self]
    ELSE LET f == full(index)
             stored == [messages EXCEPT ![index.n] = message]
         IN
         IF f.exc # NoExc THEN [exc |-> f.exc, val |-> None, self |-> self]
         ELSE IF f.val.b
         THEN [exc |-> RuntimeError("Message box position is full"), val |-> None,
               self |-> [my_size |-> my_size, count |-> count,
                         messages |-> stored, empty_box |-> empty_box]]
         ELSE [exc |-> NoExc, val |-> None,
               self |-> [my_size |-> my_size,
                         count |-> count + 1,
                         messages |-> stored,
                         empty_box |-> [empty_box EXCEPT ![index.n] = FALSE]]]

\* send without its test of the slot: it overwrites an occupied slot.
send_Overwrite(index, message) ==
    IF index.n < 0 \/ index.n >= my_size
    THEN [exc |-> IndexError("Index out of bounds"), val |-> None, self |-> self]
    ELSE [exc |-> NoExc, val |-> None,
          self |-> [my_size |-> my_size,
                    count |-> count + 1,
                    messages |-> [messages EXCEPT ![index.n] = message],
                    empty_box |-> [empty_box EXCEPT ![index.n] = FALSE]]]

\* send without marking the slot as occupied.
send_NoFlag(index, message) ==
    IF index.n < 0 \/ index.n >= my_size
    THEN [exc |-> IndexError("Index out of bounds"), val |-> None, self |-> self]
    ELSE LET f == full(index) IN
         IF f.exc # NoExc THEN [exc |-> f.exc, val |-> None, self |-> self]
         ELSE IF f.val.b
         THEN [exc |-> RuntimeError("Message box position is full"), val |-> None,
               self |-> self]
         ELSE [exc |-> NoExc, val |-> None,
               self |-> [my_size |-> my_size,
                         count |-> count + 1,
                         messages |-> [messages EXCEPT ![index.n] = message],
                         empty_box |-> empty_box]]

\* send(index, message): the result and the object after the call.
send(index, message) ==
    IF index.n < 0 \/ index.n >= my_size
    THEN [exc |-> IndexError("Index out of bounds"), val |-> None, self |-> self]
    ELSE LET f == full(index) IN
         IF f.exc # NoExc THEN [exc |-> f.exc, val |-> None, self |-> self]
         ELSE IF f.val.b
         THEN [exc |-> RuntimeError("Message box position is full"), val |-> None,
               self |-> self]
         ELSE [exc |-> NoExc, val |-> None,
               self |-> [my_size |-> my_size,
                         count |-> count + 1,
                         messages |-> [messages EXCEPT ![index.n] = message],
                         empty_box |-> [empty_box EXCEPT ![index.n] = FALSE]]]

\* receive without count -= 1.
receive_NoCount(index) ==
    IF index.n < 0 \/ index.n >= my_size
    THEN [exc |-> IndexError("Index out of bounds"), val |-> None, self |-> self]
    ELSE LET e == empty(index) IN
         IF e.exc # NoExc THEN [exc |-> e.exc, val |-> None, self |-> self]
         ELSE IF e.val.b
         THEN [exc |-> RuntimeError("Message box position is empty"), val |-> None,
               self |-> self]
         ELSE [exc |-> NoExc, val |-> messages[index.n],
               self |-> [my_size |-> my_size,
                         count |-> count,
                         messages |-> [messages EXCEPT ![index.n] = None],
                         empty_box |-> [empty_box EXCEPT ![index.n] = TRUE]]]

\* receive without marking the slot as empty.
receive_NoFlag(index) ==
    IF index.n < 0 \/ index.n >= my_size
    THEN [exc |-> IndexError("Index out of bounds"), val |-> None, self |-> self]
    ELSE LET e == empty(index) IN
         IF e.exc # NoExc THEN [exc |-> e.exc, val |-> None, self |-> self]
         ELSE IF e.val.b
         THEN [exc |-> RuntimeError("Message box position is empty"), val |-> None,
               self |-> self]
         ELSE [exc |-> NoExc, val |-> messages[index.n],
               self |-> [my_size |-> my_size,
                         count |-> count - 1,
                         messages |-> [messages EXCEPT ![index.n] = None],
                         empty_box |-> empty_box]]

\* receive reading the message after it has cleared the slot.
receive_ReadAfterClear(index) ==
    IF index.n < 0 \/ index.n >= my_size
    THEN [exc |-> IndexError("Index out of bounds"), val |-> None, self |-> self]
    ELSE LET e == empty(index) IN
         IF e.exc # NoExc THEN [exc |-> e.exc, val |-> None, self |-> self]
         ELSE IF e.val.b
         THEN [exc |-> RuntimeError("Message box position is empty"), val |-> None,
               self |-> self]
         ELSE [exc |-> NoExc, val |-> None,
               self |-> [my_size |-> my_size,
                         count |-> count - 1,
                         messages |-> [messages EXCEPT ![index.n] = None],
                         empty_box |-> [empty_box EXCEPT ![index.n] = TRUE]]]

\* receive marking every slot as empty instead of the one received.
receive_ResetsFlags(index) ==
    IF index.n < 0 \/ index.n >= my_size
    THEN [exc |-> IndexError("Index out of bounds"), val |-> None, self |-> self]
    ELSE LET e == empty(index) IN
         IF e.exc # NoExc THEN [exc |-> e.exc, val |-> None, self |-> self]
         ELSE IF e.val.b
         THEN [exc |-> RuntimeError("Message box position is empty"), val |-> None,
               self |-> self]
         ELSE [exc |-> NoExc, val |-> messages[index.n],
               self |-> [my_size |-> my_size,
                         count |-> count - 1,
                         messages |-> [messages EXCEPT ![index.n] = None],
                         empty_box |-> Repeat(TRUE, my_size)]]

\* receive without self.messages[index] = None: the message stays in the list.
receive_KeepsMessage(index) ==
    IF index.n < 0 \/ index.n >= my_size
    THEN [exc |-> IndexError("Index out of bounds"), val |-> None, self |-> self]
    ELSE LET e == empty(index) IN
         IF e.exc # NoExc THEN [exc |-> e.exc, val |-> None, self |-> self]
         ELSE IF e.val.b
         THEN [exc |-> RuntimeError("Message box position is empty"), val |-> None,
               self |-> self]
         ELSE [exc |-> NoExc, val |-> messages[index.n],
               self |-> [my_size |-> my_size,
                         count |-> count - 1,
                         messages |-> messages,
                         empty_box |-> [empty_box EXCEPT ![index.n] = TRUE]]]

\* receive(index): the result and the object after the call.
receive(index) ==
    IF index.n < 0 \/ index.n >= my_size
    THEN [exc |-> IndexError("Index out of bounds"), val |-> None, self |-> self]
    ELSE LET e == empty(index) IN
         IF e.exc # NoExc THEN [exc |-> e.exc, val |-> None, self |-> self]
         ELSE IF e.val.b
         THEN [exc |-> RuntimeError("Message box position is empty"), val |-> None,
               self |-> self]
         ELSE [exc |-> NoExc, val |-> messages[index.n],
               self |-> [my_size |-> my_size,
                         count |-> count - 1,
                         messages |-> [messages EXCEPT ![index.n] = None],
                         empty_box |-> [empty_box EXCEPT ![index.n] = TRUE]]]

get_size == Return(PyInt(my_size))

get_count == Return(PyInt(count))

RECURSIVE to_string_loop(_, _)
\* The loop of to_string from slot i on, result being the list built so far.
\* empty(i) cannot raise here: i is in range(my_size).
to_string_loop(i, result) ==
    IF i >= my_size THEN result
    ELSE to_string_loop(i + 1,
             IF ~empty(PyInt(i)).val.b THEN Append(result, str(messages[i]))
             ELSE result)

\* to_string without its test of the slot: every slot's content is appended.
to_string_NoSkip ==
    Return(PyStr(join(" ", [k \in 1 .. (IF my_size < 0 THEN 0 ELSE my_size)
                                |-> str(messages[k - 1])])))

to_string == Return(PyStr(join(" ", to_string_loop(0, <<>>))))

\* __str__ joining the messages with a comma and a space.
str_method_Commas == Return(PyStr(join(", ", to_string_loop(0, <<>>))))

\* __str__
str_method == to_string

\* print(): the lines written.
print == <<to_string.val.s>>

RECURSIVE print_verbose_loop_NoMarker(_, _)
\* The loop of print_verbose writing nothing between the colons for an empty slot.
print_verbose_loop_NoMarker(i, lines) ==
    IF i >= my_size THEN lines
    ELSE LET result == IF empty(PyInt(i)).val.b THEN "" ELSE str(messages[i])
         IN  print_verbose_loop_NoMarker(i + 1,
                 Append(lines, IntToStr(i) \o ":" \o result \o ":"))

RECURSIVE print_verbose_loop(_, _)
\* The loop of print_verbose from slot i on, lines being the lines written so far.
print_verbose_loop(i, lines) ==
    IF i >= my_size THEN lines
    ELSE LET result == IF empty(PyInt(i)).val.b THEN "<empty>" ELSE str(messages[i])
         IN  print_verbose_loop(i + 1,
                 Append(lines, IntToStr(i) \o ":" \o result \o ":"))

\* print_verbose(): the lines written.
print_verbose == print_verbose_loop(0, <<>>)

---------------------------------------------------------------------------
(* The calls the owner makes. *)

\* The record of a call.
Call(method, index, message, r) ==
    [method |-> method, index |-> index, message |-> message,
     exc |-> r.exc, val |-> r.val]

\* No message was ever sent to the slot, or it was received since.
NoSend == [tag |-> "<nothing>", s |-> "", n |-> 0, b |-> FALSE]

\* A call that leaves the object alone.
Query(method, index, r, lines) ==
    /\ last' = Call(method, index, None, r)
    /\ pre' = [self |-> self, sent |-> sent]
    /\ stdout' = lines
    /\ UNCHANGED <<my_size, count, messages, empty_box, sent, constructed_with>>

Call_send(index, message) ==
    LET r == send(index, message) IN
    /\ my_size' = r.self.my_size
    /\ count' = r.self.count
    /\ messages' = r.self.messages
    /\ empty_box' = r.self.empty_box
    /\ last' = Call("send", index, message, r)
    /\ pre' = [self |-> self, sent |-> sent]
    /\ sent' = IF r.exc = NoExc THEN [sent EXCEPT ![index.n] = message] ELSE sent
    /\ stdout' = <<>>
    /\ UNCHANGED constructed_with

Call_receive(index) ==
    LET r == receive(index) IN
    /\ my_size' = r.self.my_size
    /\ count' = r.self.count
    /\ messages' = r.self.messages
    /\ empty_box' = r.self.empty_box
    /\ last' = Call("receive", index, None, r)
    /\ pre' = [self |-> self, sent |-> sent]
    /\ sent' = IF r.exc = NoExc THEN [sent EXCEPT ![index.n] = NoSend] ELSE sent
    /\ stdout' = <<>>
    /\ UNCHANGED constructed_with

Call_empty(index) == Query("empty", index, empty(index), <<>>)

Call_full(index) == Query("full", index, full(index), <<>>)

Call_get_size == Query("get_size", None, get_size, <<>>)

Call_get_count == Query("get_count", None, get_count, <<>>)

\* to_string written with receive: it takes every message out of the box.
Call_to_string_Drains ==
    /\ last' = Call("to_string", None, None, to_string)
    /\ pre' = [self |-> self, sent |-> sent]
    /\ stdout' = <<>>
    /\ my_size' = my_size
    /\ count' = 0
    /\ messages' = Repeat(None, my_size)
    /\ empty_box' = Repeat(TRUE, my_size)
    /\ sent' = Repeat(NoSend, my_size)
    /\ UNCHANGED constructed_with

Call_to_string == Query("to_string", None, to_string, <<>>)

Call_str == Query("__str__", None, str_method, <<>>)

Call_print == Query("print", None, Return(None), print)

Call_print_verbose == Query("print_verbose", None, Return(None), print_verbose)

\* The scenario is not being run.
NoScenario == [phase |-> "none", filled |-> <<>>, received |-> <<>>]

\* No unsynchronised caller is in the middle of a call.
NoThreads == <<>>

\* MessageBox(arg), or MessageBox() when arg is None: num_entries takes its
\* default, and the object and the records are as construction leaves them.
Constructed(arg) ==
    LET num_entries == IF arg = None THEN DEFAULT_SIZE ELSE arg.n IN
    /\ my_size = Construct(num_entries).my_size
    /\ count = Construct(num_entries).count
    /\ messages = Construct(num_entries).messages
    /\ empty_box = Construct(num_entries).empty_box
    /\ last = Call("__init__", arg, None, Return(None))
    /\ pre = [self |-> Construct(num_entries), sent |-> Repeat(NoSend, num_entries)]
    /\ sent = Repeat(NoSend, num_entries)
    /\ stdout = <<>>
    /\ constructed_with = arg

\* The owner constructs the box with a capacity.
Init ==
    /\ \E num_entries \in Capacities : Constructed(PyInt(num_entries))
    /\ scenario = NoScenario
    /\ threads = NoThreads

\* Neither the scenario nor an unsynchronised caller takes part in the step.
OwnerOnly == UNCHANGED <<scenario, threads>>

\* The calls of the owner, with indexes and messages from the given sets.
OwnerCall(indexes, msgs) ==
    \/ \E index \in indexes, message \in msgs : Call_send(index, message) /\ OwnerOnly
    \/ \E index \in indexes : Call_receive(index) /\ OwnerOnly
    \/ \E index \in indexes \cup {None} : Call_empty(index) /\ OwnerOnly
    \/ \E index \in indexes \cup {None} : Call_full(index) /\ OwnerOnly
    \/ Call_get_size /\ OwnerOnly
    \/ Call_get_count /\ OwnerOnly
    \/ Call_to_string /\ OwnerOnly
    \/ Call_str /\ OwnerOnly
    \/ Call_print /\ OwnerOnly
    \/ Call_print_verbose /\ OwnerOnly

Next == OwnerCall(Indexes, Messages)

Spec == Init /\ [][Next]_vars

---------------------------------------------------------------------------
(* The box constructed with a capacity or with none (the default capacity),
   and one message to send. *)

DefaultIndexes == {PyInt(i) : i \in (0 - IndexSlack) .. (DEFAULT_SIZE + IndexSlack - 1)}

DefaultMessages == {PyStr("Hello")}

InitWithDefault ==
    /\ \E arg \in {PyInt(n) : n \in Capacities} \cup {None} : Constructed(arg)
    /\ scenario = NoScenario
    /\ threads = NoThreads

NextWithDefault == OwnerCall(DefaultIndexes, DefaultMessages)

SpecWithDefault == InitWithDefault /\ [][NextWithDefault]_vars

---------------------------------------------------------------------------
(* The fill-and-drain scenario: the owner sends into every index of a fresh box,
   in any order, sends again to slots of the full box, then receives every
   index in ascending order.  scenario.filled is the message sent to each
   slot, scenario.received the values the receives returned, in order. *)

InitFillDrain ==
    /\ \E num_entries \in 1 .. MaxCapacity : Constructed(PyInt(num_entries))
    /\ scenario = [phase |-> "filling", filled |-> <<>>, received |-> <<>>]
    /\ threads = NoThreads

\* send(index, message) for an index not sent to yet.
Fill(index, message) ==
    /\ scenario.phase = "filling"
    /\ index.n \in (0 .. (my_size - 1)) \ DOMAIN scenario.filled
    /\ Call_send(index, message)
    /\ LET filled == [i \in DOMAIN scenario.filled \cup {index.n} |->
                         IF i = index.n THEN message ELSE scenario.filled[i]]
       IN  scenario' = [phase |-> IF DOMAIN filled = 0 .. (my_size - 1)
                                  THEN "filled" ELSE "filling",
                        filled |-> filled,
                        received |-> <<>>]
    /\ UNCHANGED threads

\* A further send(index, message) to a valid index of the full box.
SendAgain(index, message) ==
    /\ scenario.phase \in {"filled", "sent_again"}
    /\ index.n \in 0 .. (my_size - 1)
    /\ Call_send(index, message)
    /\ scenario' = [scenario EXCEPT !.phase = "sent_again"]
    /\ UNCHANGED threads

\* receive(k) for the lowest index k not received yet.
Drain ==
    /\ scenario.phase \in {"filled", "sent_again", "draining"}
    /\ Call_receive(PyInt(Len(scenario.received)))
    /\ scenario' = [phase |-> IF Len(scenario.received) + 1 = my_size
                              THEN "drained" ELSE "draining",
                    filled |-> scenario.filled,
                    received |-> Append(scenario.received, last'.val)]
    /\ UNCHANGED threads

NextFillDrain ==
    \/ \E index \in Indexes, message \in Messages : Fill(index, message)
    \/ \E index \in Indexes, message \in Messages : SendAgain(index, message)
    \/ Drain

SpecFillDrain == InitFillDrain /\ [][NextFillDrain]_vars

---------------------------------------------------------------------------
(* Two callers without mutual exclusion.  A call of send or receive is two
   steps: its tests (the index, then the slot), and its assignments; the other
   caller may take steps in between.  threads.calls[t] is what caller t has
   passed the tests of and not yet carried out; threads.raced records that a
   caller passed the tests on a slot while the other caller was between its
   tests and its assignments on the same slot.  The records last, pre, sent and
   stdout are not kept here. *)

Callers == {"A", "B"}

ConcurrentMessages == {PyStr("Hello"), PyInt(-7)}

\* The caller is in no call.
NoCall == [op |-> "none", index |-> None, message |-> None]

InitConcurrent ==
    /\ \E num_entries \in 1 .. MaxCapacity : Constructed(PyInt(num_entries))
    /\ scenario = NoScenario
    /\ threads = [calls |-> [t \in Callers |-> NoCall], raced |-> FALSE]

\* The other caller is between the tests and the assignments of a call on the slot.
Overlaps(t, index) ==
    \E u \in Callers \ {t} :
        threads.calls[u].op # "none" /\ threads.calls[u].index = index

\* The count is within the range in which callers still start calls.
WithinDrift == count \in (0 - MaxDrift) .. (my_size + MaxDrift)

\* The assignments of send without count += 1.
send_assignments_NoCount(index, message) ==
    [my_size |-> my_size,
     count |-> count,
     messages |-> [messages EXCEPT ![index.n] = message],
     empty_box |-> [empty_box EXCEPT ![index.n] = FALSE]]

\* The assignments of send, carried out on the object as it is now.
send_assignments(index, message) ==
    [my_size |-> my_size,
     count |-> count + 1,
     messages |-> [messages EXCEPT ![index.n] = message],
     empty_box |-> [empty_box EXCEPT ![index.n] = FALSE]]

\* The assignments of receive, carried out on the object as it is now.
receive_assignments(index) ==
    [my_size |-> my_size,
     count |-> count - 1,
     messages |-> [messages EXCEPT ![index.n] = None],
     empty_box |-> [empty_box EXCEPT ![index.n] = TRUE]]

\* The object becomes o.
Becomes(o) ==
    /\ my_size' = o.my_size
    /\ count' = o.count
    /\ messages' = o.messages
    /\ empty_box' = o.empty_box

\* Caller t calls send(index, message) and the tests of send let it through.
BeginSend(t, index, message) ==
    /\ threads.calls[t] = NoCall
    /\ WithinDrift
    /\ send(index, message).exc = NoExc
    /\ threads' = [calls |-> [threads.calls EXCEPT ![t] =
                                 [op |-> "send", index |-> index, message |-> message]],
                   raced |-> threads.raced \/ Overlaps(t, index)]
    /\ UNCHANGED <<my_size, count, messages, empty_box, last, pre, sent, stdout,
                   constructed_with, scenario>>

\* Caller t carries out the assignments of its send.
FinishSend(t) ==
    /\ threads.calls[t].op = "send"
    /\ Becomes(send_assignments(threads.calls[t].index, threads.calls[t].message))
    /\ threads' = [threads EXCEPT !.calls[t] = NoCall]
    /\ UNCHANGED <<last, pre, sent, stdout, constructed_with, scenario>>

\* Caller t calls receive(index) and the tests of receive let it through.
BeginReceive(t, index) ==
    /\ threads.calls[t] = NoCall
    /\ WithinDrift
    /\ receive(index).exc = NoExc
    /\ threads' = [calls |-> [threads.calls EXCEPT ![t] =
                                 [op |-> "receive", index |-> index, message |-> None]],
                   raced |-> threads.raced \/ Overlaps(t, index)]
    /\ UNCHANGED <<my_size, count, messages, empty_box, last, pre, sent, stdout,
                   constructed_with, scenario>>

\* Caller t carries out the assignments of its receive.
FinishReceive(t) ==
    /\ threads.calls[t].op = "receive"
    /\ Becomes(receive_assignments(threads.calls[t].index))
    /\ threads' = [threads EXCEPT !.calls[t] = NoCall]
    /\ UNCHANGED <<last, pre, sent, stdout, constructed_with, scenario>>

NextConcurrent ==
    \/ \E t \in Callers, index \in Indexes, message \in ConcurrentMessages :
           BeginSend(t, index, message)
    \/ \E t \in Callers : FinishSend(t)
    \/ \E t \in Callers, index \in Indexes : BeginReceive(t, index)
    \/ \E t \in Callers : FinishReceive(t)

SpecConcurrent == InitConcurrent /\ [][NextConcurrent]_vars

---------------------------------------------------------------------------
(* What the claims speak of. *)

\* The index is one of the slots of a box of the given size.
InRange(index, size) == 0 <= index.n /\ index.n < size

\* The most recent call was given an index and the index was one of the slots.
LastIndexValid == last.index # None /\ InRange(last.index, pre.self.my_size)

\* The most recent call was given an index and it was outside the slots.
LastIndexInvalid == last.index # None /\ ~InRange(last.index, pre.self.my_size)

Succeeded == last.exc = NoExc

SlotOccupiedError == RuntimeError("Message box position is full")

SlotEmptyError == RuntimeError("Message box position is empty")

\* The slots i of 0..N-1 for which empty(i) is false.
NotEmptySlots == {i \in 0 .. (my_size - 1) : empty(PyInt(i)) = Return(PyBool(FALSE))}

---------------------------------------------------------------------------
(* The claims. *)

\* C1: in every state reachable from construction with capacity N >= 1 by any
\* sequence of calls, successful or failing, get_count() equals the number of
\* slots i in 0..N-1 for which empty(i) is false, and so lies in [0, N].
C1_CountIsNumberOfOccupiedSlots ==
    my_size >= 1 =>
        /\ get_count = Return(PyInt(Cardinality(NotEmptySlots)))
        /\ get_count.val.n \in 0 .. my_size

\* C1's case: a box with several slots in which sends and a receive succeeded.
C1_Witness ==
    /\ my_size >= 2
    /\ last.method = "receive" /\ Succeeded
    /\ count = 2

\* C2: whenever send or receive fails (IndexError or RuntimeError), the whole
\* state is as before the call: every slot's item, every slot's flag, the count
\* and the size.
C2_FailureLeavesStateUnchanged ==
    (last.method \in {"send", "receive"} /\ ~Succeeded) => self = pre.self

\* C2's case: a send to an occupied slot was rejected, with a message other than
\* the one the slot holds.
C2_Witness ==
    /\ last.method = "send" /\ last.exc = SlotOccupiedError
    /\ last.message # pre.self.messages[last.index.n]
    /\ count >= 1

\* C3: for an index < 0 or >= size, send, receive, empty(index) and full(index)
\* each fail with IndexError, never with RuntimeError, whatever the occupancy;
\* for an index in [0, size) none of them fails with IndexError.
C3_IndexErrorIffOutOfRange ==
    (last.method \in {"send", "receive", "empty", "full"} /\ last.index # None) =>
        /\ LastIndexInvalid => last.exc = IndexError("Index out of bounds")
        /\ LastIndexValid => last.exc.type # "IndexError"

\* C3's case: receive(get_size()) on a box that holds messages.
C3_Witness ==
    /\ last.method = "receive" /\ last.index = PyInt(my_size)
    /\ last.exc.type = "IndexError"
    /\ my_size >= 2 /\ count >= 1

\* C4: for a valid index, send(index, y) succeeds if and only if the slot is
\* empty; when the slot already holds an item x the call fails with the
\* slot-occupied error and the item is not overwritten: a following
\* receive(index) returns x, not y.
C4_SendOnlyIntoEmptySlot ==
    (last.method = "send" /\ LastIndexValid) =>
        LET x == pre.sent[last.index.n] IN
        /\ Succeeded <=> x = NoSend
        /\ x # NoSend =>
              /\ last.exc = SlotOccupiedError
              /\ receive(last.index).exc = NoExc
              /\ receive(last.index).val = x

\* C4's case: send(index, y) was rejected on a slot holding another item x.
C4_Witness ==
    /\ last.method = "send" /\ LastIndexValid
    /\ pre.sent[last.index.n] = PyStr("Hello")
    /\ last.message = PyInt(-7)
    /\ last.exc = SlotOccupiedError

\* C5: for a valid index, receive(index) succeeds if and only if the slot is
\* occupied; on a slot never filled, or filled and already received, it fails
\* with the slot-empty error, so two consecutive receive(index) calls never both
\* succeed.
C5_ReceiveOnlyFromOccupiedSlot ==
    (last.method = "receive" /\ LastIndexValid) =>
        LET x == pre.sent[last.index.n] IN
        /\ Succeeded <=> x # NoSend
        /\ x = NoSend => last.exc = SlotEmptyError
        /\ Succeeded => receive(last.index).exc = SlotEmptyError

\* C5's case: a receive succeeded on a box holding other messages too, so that
\* the receive following it is one of a slot filled and already received.
C5_Witness ==
    /\ last.method = "receive" /\ LastIndexValid /\ Succeeded
    /\ count >= 1
    /\ receive(last.index).exc = SlotEmptyError

\* C6: a successful receive(index) returns exactly the item passed to the most
\* recent successful send at that index, whatever happened on other indexes and
\* whichever calls failed in between; afterwards empty(index) is true and
\* get_count() is exactly one less than before the call.
C6_ReceiveReturnsWhatWasSent ==
    (last.method = "receive" /\ Succeeded) =>
        /\ LastIndexValid
        /\ pre.sent[last.index.n] # NoSend
        /\ last.val = pre.sent[last.index.n]
        /\ empty(last.index) = Return(PyBool(TRUE))
        /\ get_count = Return(PyInt(pre.self.count - 1))

\* C6's case: a receive returned the message sent, with another slot occupied.
C6_Witness ==
    /\ last.method = "receive" /\ Succeeded
    /\ last.val = PyStr("Hello")
    /\ count >= 1

\* C7: for every valid index, after send(index, x) succeeds empty(index) is
\* false, full(index) is true, empty() overall is false and get_count() is
\* exactly one more than before the call.
C7_AfterSuccessfulSend ==
    (last.method = "send" /\ Succeeded) =>
        /\ LastIndexValid
        /\ empty(last.index) = Return(PyBool(FALSE))
        /\ full(last.index) = Return(PyBool(TRUE))
        /\ empty(None) = Return(PyBool(FALSE))
        /\ get_count = Return(PyInt(pre.self.count + 1))

\* C7's case: a send succeeded into a box that already held a message.
C7_Witness ==
    /\ last.method = "send" /\ Succeeded
    /\ pre.self.count >= 1
    /\ count = pre.self.count + 1

\* C8: in every reachable state full() with no index is true if and only if
\* get_count() == get_size(), and empty() with no index is true if and only if
\* get_count() == 0; neither call ever fails.
C8_OverallFullAndEmpty ==
    /\ full(None) = Return(PyBool(get_count.val = get_size.val))
    /\ empty(None) = Return(PyBool(get_count.val = PyInt(0)))
    /\ (last.method \in {"full", "empty"} /\ last.index = None) =>
          /\ Succeeded
          /\ last.val = (IF last.method = "full" THEN full(None).val ELSE empty(None).val)

\* C8's case: full() was called on a box of several slots, all occupied.
C8_Witness ==
    /\ last.method = "full" /\ last.index = None
    /\ last.val = PyBool(TRUE)
    /\ my_size >= 2

\* The slots that hold a message sent and not yet received.
SlotsHoldingAMessage == {i \in DOMAIN sent : sent[i] # NoSend}

RECURSIVE TextOf(_)
\* The textual forms of the messages held in the slots S, in ascending order of
\* slot, with one space between neighbours.
TextOf(S) ==
    IF S = {} THEN ""
    ELSE LET hi == CHOOSE i \in S : \A j \in S : j <= i
             rest == S \ {hi}
         IN  IF rest = {} THEN str(sent[hi])
             ELSE TextOf(rest) \o " " \o str(sent[hi])

\* C9: in every reachable state to_string() returns the textual forms of exactly
\* the items of the occupied slots, in ascending slot-index order (not in the
\* order they were sent), joined by a single space, with nothing from the empty
\* slots; with no occupied slot it returns the empty string.
C9_ToStringInSlotOrder ==
    /\ to_string = Return(PyStr(TextOf(SlotsHoldingAMessage)))
    /\ SlotsHoldingAMessage = {} => to_string = Return(PyStr(""))
    /\ last.method = "to_string" =>
          (Succeeded /\ last.val = PyStr(TextOf(SlotsHoldingAMessage)))

\* C9's case: slot 0 was filled after slot 2 and slot 1 is empty; to_string()
\* gives slot 0's message first.
C9_Witness ==
    /\ my_size >= 3
    /\ last.method = "send" /\ Succeeded /\ last.index = PyInt(0)
    /\ sent[0] = PyStr("Hello") /\ sent[1] = NoSend /\ sent[2] = PyInt(-7)
    /\ to_string = Return(PyStr("Hello -7"))

QueryMethods ==
    {"empty", "full", "get_size", "get_count", "to_string", "__str__", "print",
     "print_verbose"}

\* C10: the query and formatting operations leave the state (slot items,
\* occupancy flags, count, size) unchanged, whether they succeed or fail; hence
\* repeating empty(), get_count() or get_size() with no send or receive in
\* between returns the same value each time.
C10_QueriesChangeNothing ==
    [][ last'.method \in QueryMethods =>
            /\ self' = self
            /\ empty(None)' = empty(None)
            /\ get_count' = get_count
            /\ get_size' = get_size ]_vars

\* C10's case: a query that failed, and a formatting call, on a box holding
\* messages.
C10_Witness ==
    /\ count >= 2
    /\ \/ last.method = "full" /\ last.exc.type = "IndexError"
       \/ last.method = "print_verbose" /\ Len(stdout) = my_size

\* The capacity the constructor was given: 10 when it was given none.
CapacityGiven == IF constructed_with = None THEN 10 ELSE constructed_with.n

\* The indexes, of all those tried, that the box accepts as slots.
AddressableSlots ==
    {i \in (0 - IndexSlack) .. (DEFAULT_SIZE + IndexSlack - 1) :
        empty(PyInt(i)).exc = NoExc}

\* C11 as amended: get_size() returns the capacity given to the constructor (10
\* when none is given) and never changes: after any sequence of successful or
\* failing calls it still returns it, and the addressable slots are still the
\* indexes 0..capacity-1 (capacity of them when the capacity is >= 0, none when
\* it is negative).
C11_SizeIsTheCapacityGiven ==
    /\ get_size = Return(PyInt(CapacityGiven))
    /\ AddressableSlots = 0 .. (CapacityGiven - 1)
    /\ CapacityGiven >= 0 => Cardinality(AddressableSlots) = CapacityGiven
    /\ last.method = "get_size" => (Succeeded /\ last.val = PyInt(CapacityGiven))

\* C11 as stated: get_size() returns the capacity given to the constructor and
\* the number of addressable slots is that capacity, in every reachable state.
C11_Original ==
    /\ get_size = Return(PyInt(CapacityGiven))
    /\ Cardinality(AddressableSlots) = CapacityGiven

\* C11's case: a box constructed with no argument, after sends and a receive
\* that succeeded and a send that failed.
C11_Witness ==
    /\ constructed_with = None
    /\ my_size = 10
    /\ count >= 2
    /\ last.method = "send" /\ ~Succeeded
    /\ \E i \in DOMAIN sent : sent[i] = NoSend /\ messages[i] = None /\ i < 3

\* C12: immediately after construction with any capacity N >= 1 (or with the
\* default capacity 10), get_count() is 0, empty(i) is true for every i in
\* 0..N-1, empty() overall is true and full() overall is false.
C12_FreshBoxIsEmpty ==
    (last.method = "__init__" /\ CapacityGiven >= 1) =>
        /\ get_count = Return(PyInt(0))
        /\ \A i \in 0 .. (CapacityGiven - 1) : empty(PyInt(i)) = Return(PyBool(TRUE))
        /\ empty(None) = Return(PyBool(TRUE))
        /\ full(None) = Return(PyBool(FALSE))

\* C12's case: the box just constructed with the default capacity.
C12_Witness ==
    /\ last.method = "__init__"
    /\ constructed_with = None
    /\ get_size = Return(PyInt(10))

\* C13: for every valid index and every reachable state full(index) equals the
\* negation of empty(index); for every invalid index full(index) fails with the
\* same IndexError that empty(index) raises.
C13_FullIsNotEmpty ==
    /\ \A index \in Indexes :
          IF InRange(index, my_size)
          THEN /\ empty(index).exc = NoExc
               /\ full(index) = Return(PyBool(~empty(index).val.b))
          ELSE /\ empty(index).exc.type = "IndexError"
               /\ full(index).exc = empty(index).exc
    /\ (last.method = "full" /\ last.index # None) =>
          IF LastIndexValid
          THEN Succeeded /\ last.val = PyBool(~empty(last.index).val.b)
          ELSE last.exc = empty(last.index).exc /\ last.exc.type = "IndexError"

\* C13's case: full(index) was called on a slot that holds the message None.
C13_Witness ==
    /\ last.method = "full" /\ LastIndexValid
    /\ sent[last.index.n] = None
    /\ last.val = PyBool(TRUE)
    /\ empty(last.index) = Return(PyBool(FALSE))

\* C15: constructed with a capacity <= 0, construction succeeds, get_size()
\* returns exactly the given value (no default, no clamped value), and every
\* indexed operation send(i, m), receive(i), empty(i), full(i) fails with
\* IndexError for every integer i.
C15_NonPositiveCapacity ==
    (constructed_with # None /\ constructed_with.n <= 0) =>
        /\ last.method = "__init__" => Succeeded
        /\ get_size = Return(constructed_with)
        /\ \A index \in Indexes :
              /\ \A message \in Messages : send(index, message).exc.type = "IndexError"
              /\ receive(index).exc.type = "IndexError"
              /\ empty(index).exc.type = "IndexError"
              /\ full(index).exc.type = "IndexError"
        /\ (last.method \in {"send", "receive", "empty", "full"} /\ last.index # None) =>
              last.exc.type = "IndexError"

\* C15's case: receive(0) on a box constructed with a negative capacity.
C15_Witness ==
    /\ constructed_with = PyInt(-1)
    /\ last.method = "receive" /\ last.index = PyInt(0)
    /\ last.exc = IndexError("Index out of bounds")
    /\ get_size = Return(PyInt(-1))

\* What a slot's line shows between the colons.
ContentOf(i) == IF sent[i] = NoSend THEN "<empty>" ELSE str(sent[i])

\* One line per slot, in ascending order of slot: <index>:<content>:
LinesOf(n) == [k \in 1 .. n |-> IntToStr(k - 1) \o ":" \o ContentOf(k - 1) \o ":"]

\* C16 as amended: print_verbose() emits one line per slot in ascending index
\* order, each of the form <index>:<content>: with the unpadded slot number and
\* the item's textual form or the literal <empty>; these are exactly get_size()
\* lines when get_size() >= 0 and no line when get_size() is negative.
C16_PrintVerboseLines ==
    LET n == IF get_size.val.n < 0 THEN 0 ELSE get_size.val.n IN
    /\ print_verbose = LinesOf(n)
    /\ last.method = "print_verbose" => (Succeeded /\ stdout = LinesOf(n))

\* C16 as stated: print_verbose() emits exactly get_size() lines, of that form.
C16_Original ==
    last.method = "print_verbose" =>
        /\ Len(stdout) = get_size.val.n
        /\ stdout = LinesOf(Len(stdout))

\* C16's case: print_verbose() on a box of three slots, the middle one empty.
C16_Witness ==
    /\ last.method = "print_verbose"
    /\ get_size = Return(PyInt(3))
    /\ stdout = <<"0:Hello:", "1:<empty>:", "2:-7:">>

\* C17: in every reachable state str(container) returns exactly the same string
\* as to_string(), and print() emits exactly that string as one line.
C17_StrAndPrintAreToString ==
    /\ str_method = to_string
    /\ print = <<to_string.val.s>>
    /\ last.method = "__str__" =>
          (Succeeded /\ last.val = to_string.val
                     /\ last.val = PyStr(TextOf(SlotsHoldingAMessage)))
    /\ last.method = "print" =>
          (Succeeded /\ stdout = <<to_string.val.s>>
                     /\ stdout = <<TextOf(SlotsHoldingAMessage)>>)

\* C17's case: str(box) on a box holding two messages.
C17_Witness ==
    /\ last.method = "__str__"
    /\ last.val = PyStr("Hello -7")
    /\ to_string = Return(PyStr("Hello -7"))

\* C18: a slot can be reused without limit: in every reachable state, after a
\* successful receive(index) a following send(index, y) succeeds and a later
\* receive(index) returns y; the empty -> occupied -> empty cycle can repeat any
\* number of times, the count returning to its earlier value after each cycle.
C18_SlotReuse ==
    /\ (last.method = "receive" /\ Succeeded) =>
          \A y \in Messages :
              /\ send(last.index, y).exc = NoExc
              /\ send(last.index, y).self.messages[last.index.n] = y
              /\ send(last.index, y).self.count = pre.self.count
    /\ (last.method = "send" /\ Succeeded) =>
          /\ receive(last.index).exc = NoExc
          /\ receive(last.index).val = last.message
          /\ receive(last.index).self.count = pre.self.count

\* C18's case: a receive has just emptied a slot of a box that holds other
\* messages, and a send to the slot succeeds.
C18_Witness ==
    /\ last.method = "receive" /\ Succeeded
    /\ count >= 1
    /\ send(last.index, PyInt(-7)).exc = NoExc

\* C19: occupancy is independent of the item's value: sending None into an
\* empty slot makes the slot occupied (empty(index) false, count increased by 1,
\* a second send fails with the slot-occupied error), and receive(index) then
\* succeeds and returns that same value.
C19_NoneIsAMessage ==
    (last.method = "send" /\ last.message = None /\ LastIndexValid
        /\ pre.sent[last.index.n] = NoSend) =>
        /\ Succeeded
        /\ empty(last.index) = Return(PyBool(FALSE))
        /\ get_count = Return(PyInt(pre.self.count + 1))
        /\ \A y \in Messages : send(last.index, y).exc = SlotOccupiedError
        /\ receive(last.index).exc = NoExc
        /\ receive(last.index).val = None

\* C19's case: None was sent into an empty slot.
C19_Witness ==
    /\ last.method = "send" /\ last.message = None /\ Succeeded
    /\ messages[last.index.n] = None
    /\ ~empty_box[last.index.n]

\* C14: for a box of capacity N >= 1: after sending into every index 0..N-1 of
\* a fresh box, full() is true, get_count() == N and a further send to any valid
\* index fails with the slot-occupied error; receiving every index in ascending
\* order then returns the sent items in that order, after which empty() is true
\* and get_count() == 0.
C14_FillThenDrain ==
    LET N == constructed_with.n IN
    /\ scenario.phase = "filling" =>
          (last.method = "send" => Succeeded)
    /\ scenario.phase \in {"filled", "sent_again"} =>
          /\ full(None) = Return(PyBool(TRUE))
          /\ get_count = Return(PyInt(N))
          /\ \A index \in Indexes : InRange(index, N) =>
                \A message \in Messages : send(index, message).exc = SlotOccupiedError
    /\ scenario.phase = "filled" =>
          (last.method = "send" /\ Succeeded)
    /\ scenario.phase = "sent_again" =>
          (last.method = "send" /\ last.exc = SlotOccupiedError)
    /\ scenario.phase \in {"draining", "drained"} =>
          /\ last.method = "receive" /\ Succeeded
          /\ \A k \in 1 .. Len(scenario.received) :
                scenario.received[k] = scenario.filled[k - 1]
    /\ scenario.phase = "drained" =>
          /\ Len(scenario.received) = N
          /\ empty(None) = Return(PyBool(TRUE))
          /\ get_count = Return(PyInt(0))

\* C14's case: a box of three slots filled (slot 0 last), then drained.
C14_Witness ==
    /\ scenario.phase = "drained"
    /\ constructed_with = PyInt(3)
    /\ scenario.received = <<PyStr("Hello"), None, PyInt(-7)>>

\* C20: if two callers execute send (or receive) on the same slot with the
\* occupancy check and the mutation as separate interleavable steps and no
\* mutual exclusion, a state is reachable in which the count differs from the
\* number of occupied slots (both callers pass the check and the count changes
\* twice for one slot transition); the invariant is preserved only when each
\* check-and-mutate sequence is one atomic step.  The state is C20_Witness;
\* this is the other half: as long as no caller has passed the check on a slot
\* between the other caller's check and mutation on that slot, the count is the
\* number of occupied slots.
C20_CountHoldsUnlessCallsOverlap ==
    ~threads.raced => get_count = Return(PyInt(Cardinality(NotEmptySlots)))

\* C20's case: both callers passed the check of send on one empty slot and both
\* have carried out the assignments; the count is 2 and one slot is occupied.
C20_Witness ==
    /\ threads.raced
    /\ \A t \in Callers : threads.calls[t] = NoCall
    /\ count = 2
    /\ Cardinality(NotEmptySlots) = 1

\* C21: a successful send(i, x) or receive(i) changes only slot i and the count:
\* for every other index j # i the stored item and the empty/occupied status of
\* slot j are the same after the call as before it.
C21_OtherSlotsUntouched ==
    (last.method \in {"send", "receive"} /\ Succeeded) =>
        /\ DOMAIN messages = DOMAIN pre.self.messages
        /\ DOMAIN empty_box = DOMAIN pre.self.empty_box
        /\ my_size = pre.self.my_size
        /\ \A j \in (0 .. (pre.self.my_size - 1)) \ {last.index.n} :
              /\ messages[j] = pre.self.messages[j]
              /\ empty_box[j] = pre.self.empty_box[j]
              /\ empty(PyInt(j)) = Return(PyBool(pre.self.empty_box[j]))

\* C21's case: a receive succeeded on a box in which another slot holds a message.
C21_Witness ==
    /\ last.method = "receive" /\ Succeeded
    /\ \E j \in DOMAIN messages :
          j # last.index.n /\ messages[j] = PyStr("Hello") /\ ~empty_box[j]

\* The length of a list.
ListLength(list) == Cardinality(DOMAIN list)

\* C22: in every reachable state the two parallel lists agree: messages and
\* empty_box both have a length equal to the capacity (for a capacity >= 0), and
\* for every slot i with empty_box[i] true the stored reference messages[i] is
\* the placeholder None: no stale item is kept after receive.
C22_ParallelListsAgree ==
    /\ CapacityGiven >= 0 =>
          /\ ListLength(messages) = CapacityGiven
          /\ ListLength(empty_box) = CapacityGiven
          /\ DOMAIN messages = 0 .. (CapacityGiven - 1)
    /\ DOMAIN empty_box = DOMAIN messages
    /\ \A i \in DOMAIN empty_box : empty_box[i] => messages[i] = None

\* C22's case: a receive has just taken a message out of a slot.
C22_Witness ==
    /\ last.method = "receive" /\ Succeeded
    /\ last.val = PyStr("Hello")
    /\ empty_box[last.index.n]
    /\ messages[last.index.n] = None

=============================================================================
